---- MODULE Spec2Model ----
(***************************************************************************)
(* A model of the finance notebook bot: the conversation controller        *)
(* (brain.py, Brain.handle_message), the storage layer it writes to        *)
(* (storage.py) and the delegated intent resolver (router_llm.py).         *)
(*                                                                         *)
(* One user is modelled.  A turn (one call of handle_message) is one       *)
(* atomic action.  Python's None and an absent dictionary key are both     *)
(* written NULL (dict.get cannot tell them apart); an optional number is   *)
(* the empty tuple (None) or a one-element tuple.  Texts are sequences of  *)
(* characters, so that `in`, strip and == are computed, not assumed.       *)
(***************************************************************************)
EXTENDS Integers, Sequences, FiniteSets, TLC

VARIABLES
    now,        \* the clock (datetime.now / SERVER_TIMESTAMP), in ticks
    doc,        \* the user document users/{id}
    tx,         \* the ledger: the sub-collection users/{id}/tx
    reminders,  \* the sub-collection users/{id}/reminders
    last,       \* the inputs and the outcome of the latest operation
    routeIn,    \* route_message: the service's output_text of the latest call
    routed,     \* route_message: the value returned to the caller
    call,       \* the latest call of one of the other functions: its
                \* arguments and what it gave
    mdoc,       \* main.py: the user document users/{id}
    turns       \* main.py: the updates of the user and how far the handler
                \* of each has come

vars == <<now, doc, tx, reminders, last, routeIn, routed, call, mdoc, turns>>

----------------------------------------------------------------------------
(* Bounds of the model *)

TicksPerSecond == 2
MaxEpoch == 1
MaxTx == 1
MaxReminders == 1

(* Program constants *)

CooldownHours == 24
SecondsPerHour == 3600
SecondsPerMinute == 60

NULL == "NULL"
None == <<>>
Some(x) == <<x>>

CooldownTicks == CooldownHours * SecondsPerHour * TicksPerSecond

\* The instants the clock can show: around every multiple of the cooldown.
Times ==
    { t \in { k * CooldownTicks + d : k \in 0..MaxEpoch, d \in {-1, 0} } : t >= 0 }

----------------------------------------------------------------------------
(* Texts *)

PHRASE == <<"D","E","L","E","T","E"," ","M","Y"," ","A","C","C","O","U","N","T">>
PhraseLower == <<"d","e","l","e","t","e"," ","m","y"," ","a","c","c","o","u","n","t">>
PhraseInside == <<"n","o"," ">> \o PHRASE \o <<"S"," ","n","o","w">>
Coffee5 == <<" ","c","o","f","f","e","e"," ","5">>
EmptyText == <<>>

Texts == {PHRASE, PhraseLower, PhraseInside, Coffee5, EmptyText}

IsSpace(c) == c \in {" ", "\t", "\n"}

\* needle in hay (str.__contains__)
Contains(needle, hay) ==
    \E i \in 0..(Len(hay) - Len(needle)) :
        SubSeq(hay, i + 1, i + Len(needle)) = needle

RECURSIVE LStrip(_)
LStrip(s) == IF s # <<>> /\ IsSpace(Head(s)) THEN LStrip(Tail(s)) ELSE s

RECURSIVE RStrip(_)
RStrip(s) ==
    IF s # <<>> /\ IsSpace(s[Len(s)]) THEN RStrip(SubSeq(s, 1, Len(s) - 1)) ELSE s

\* str.strip()
Strip(s) == RStrip(LStrip(s))

LowerLetters ==
    <<"a","b","c","d","e","f","g","h","i","j","k","l","m",
      "n","o","p","q","r","s","t","u","v","w","x","y","z",
      "~a","~b","~v","~g","~d","~e","~E","~j","~z","~i","~y","~k","~l","~m",
      "~n","~o","~p","~r","~s","~t","~u","~f","~h","~c","~C","~w","~W","~q",
      "~Y","~Q","~x","~U","~A">>
UpperLetters ==
    <<"A","B","C","D","E","F","G","H","I","J","K","L","M",
      "N","O","P","Q","R","S","T","U","V","W","X","Y","Z",
      "^a","^b","^v","^g","^d","^e","^E","^j","^z","^i","^y","^k","^l","^m",
      "^n","^o","^p","^r","^s","^t","^u","^f","^h","^c","^C","^w","^W","^q",
      "^Y","^Q","^x","^U","^A">>

UpperChar(c) ==
    IF \E i \in 1..Len(LowerLetters) : LowerLetters[i] = c
    THEN UpperLetters[CHOOSE i \in 1..Len(LowerLetters) : LowerLetters[i] = c]
    ELSE c

LowerChar(c) ==
    IF \E i \in 1..Len(UpperLetters) : UpperLetters[i] = c
    THEN LowerLetters[CHOOSE i \in 1..Len(UpperLetters) : UpperLetters[i] = c]
    ELSE c

\* str.upper(), str.lower()
Upper(s) == [i \in 1..Len(s) |-> UpperChar(s[i])]
Lower(s) == [i \in 1..Len(s) |-> LowerChar(s[i])]

\* Truthiness of an optional text: None and "" are falsy
Truthy(o) == o # None /\ o[1] # <<>>

\* `x or y` on optional texts
Or(x, y) == IF Truthy(x) THEN x ELSE y

\* `(x or "")`
Str(o) == IF Truthy(o) THEN o[1] ELSE <<>>

----------------------------------------------------------------------------
(* brain.py helpers *)

USD == <<"U","S","D">>
EUR == <<"E","U","R">>
GBP == <<"G","B","P">>
RUB == <<"R","U","B">>
KZT == <<"K","Z","T">>

\* The Cyrillic keys of the table, one pseudo-character per word.
mapping ==
    [k \in {<<"cyr:DOLLAR">>, <<"cyr:DOLLARY">>, USD, EUR, <<"cyr:EVRO">>, GBP,
            <<"cyr:RUB">>, RUB, <<"cyr:TENGE">>, KZT} |->
        CASE k \in {<<"cyr:DOLLAR">>, <<"cyr:DOLLARY">>, USD} -> USD
          [] k \in {EUR, <<"cyr:EVRO">>} -> EUR
          [] k = GBP -> GBP
          [] k \in {<<"cyr:RUB">>, RUB} -> RUB
          [] k \in {<<"cyr:TENGE">>, KZT} -> KZT]

_normalize_currency(c) ==
    LET cur == Upper(Strip(Str(c)))
    IN  IF cur \in DOMAIN mapping THEN mapping[cur]
        ELSE IF cur # <<>> THEN cur ELSE USD

----------------------------------------------------------------------------
(* storage.py: the user document.  The fields no operation of the model
   reads back (telegram_id, username, first_name, created_at, last_active_at)
   are left out; every write is recorded in the turn's calls. *)

NoDoc ==
    [exists |-> FALSE, language |-> NULL, language_mode |-> NULL,
     language_fixed |-> NULL, base_currency |-> None, pending |-> NULL,
     updated_at |-> None, last_delete_at |-> None]

\* Storage.ensure_user: an existing document gets updated_at (merge=True);
\* a missing one is created with the defaults.
ensure_user(d, t) ==
    IF d.exists
    THEN [d EXCEPT !.updated_at = Some(t)]
    ELSE [NoDoc EXCEPT !.exists = TRUE, !.language = "auto"]

get_user_settings(d) ==
    [language_mode |-> d.language_mode, language_fixed |-> d.language_fixed,
     base_currency |-> d.base_currency]

get_pending(d) == d.pending

set_pending(d, p) == [d EXCEPT !.exists = TRUE, !.pending = p]

set_language_fixed(d, lang, mode) ==
    [d EXCEPT !.exists = TRUE, !.language_fixed = lang, !.language_mode = mode]

\* Storage.set_user_base_currency
set_base_currency(d, cur, t) ==
    [d EXCEPT !.exists = TRUE, !.base_currency = Some(Upper(cur)), !.updated_at = Some(t)]

\* Storage.add_transaction: a new document in tx.  The ledger is kept in the
\* order of the server's created_at stamps, which are not stored.
add_transaction(ledger, payload, t) ==
    Append(ledger, payload)

\* Storage.add_reminder
add_reminder(rs, when, text, language) ==
    Append(rs, [when |-> when, text |-> text, language |-> language,
                status |-> "pending"])

\* Storage.can_delete_account: <<ok, wait in whole seconds>>
can_delete_account(d, t) ==
    LET lastDel == d.last_delete_at
    IN  IF lastDel = None THEN <<TRUE, 0>>
        ELSE LET diff == t - lastDel[1]
             IN  IF diff >= CooldownTicks THEN <<TRUE, 0>>
                 ELSE <<FALSE, (CooldownTicks - diff) \div TicksPerSecond>>

set_delete_cooldown(d, t) == [d EXCEPT !.exists = TRUE, !.last_delete_at = Some(t)]

batch_size == 200

\* _delete_collection without the recursive call: one batch only
_delete_collection_once(col) ==
    LET deleted == IF Len(col) < batch_size THEN Len(col) ELSE batch_size
    IN  SubSeq(col, deleted + 1, Len(col))

\* Storage._delete_collection: deletes batch after batch until none is left
RECURSIVE _delete_collection(_)
_delete_collection(col) ==
    LET deleted == IF Len(col) < batch_size THEN Len(col) ELSE batch_size
    IN  IF deleted > 0 THEN _delete_collection(SubSeq(col, deleted + 1, Len(col)))
        ELSE col

\* delete_user_everything writing the reset with merge=True: the fields it does
\* not name survive
delete_user_everything_merge(s, t) ==
    [doc |-> [s.doc EXCEPT !.exists = TRUE, !.language = "auto",
                           !.base_currency = None,
                           !.last_delete_at = Some(t)],
     tx |-> _delete_collection(s.tx),
     reminders |-> _delete_collection(s.reminders)]

\* Storage.delete_user_everything on <<doc, tx, reminders>>: the document is
\* replaced (merge=False), only the fields written survive.
delete_user_everything(s, t) ==
    [doc |-> [NoDoc EXCEPT !.exists = TRUE, !.language = "auto",
                           !.base_currency = None,
                           !.last_delete_at = Some(t)],
     tx |-> _delete_collection(s.tx),
     reminders |-> _delete_collection(s.reminders)]

----------------------------------------------------------------------------
(* brain.py: replies *)

NoReply == [sent |-> FALSE, action |-> NULL, data |-> <<>>, text |-> <<>>]

OkDot == <<"O","K",".">>
LlmText == <<"l","l","m">>

\* What the text-generation service does in render_reply: it raises, or
\* answers with one of these output_text values ("none": None).
RenderOutputs ==
    [none |-> None,
     empty |-> Some(""),
     blank |-> Some("  "),
     prose |-> Some("Done!"),
     array |-> Some("[\"Done\"]"),
     no_text |-> Some("{}"),
     null_text |-> Some("{\"text\": null}"),
     blank_text |-> Some("{\"text\": \"  \"}"),
     number_text |-> Some("{\"text\": 5}"),
     text |-> Some("{\"text\": \" llm \"}")]

\* brain.py 115-122 on an output_text: strip, json.loads, obj.get("text"),
\* strip, `or "OK."`; every exception in there gives "OK.".
\*   json.loads raises on "", blanks and prose; .get raises on a list;
\*   .strip raises on a number.
render_text(output_text) ==
    LET txt == IF output_text = None THEN "" ELSE output_text[1]
        got ==  \* <<raised, (obj.get("text") or "")>>
            CASE txt \in {"", "  ", "Done!"} -> <<TRUE, <<>>>>
              [] txt = "[\"Done\"]" -> <<TRUE, <<>>>>
              [] txt = "{}" -> <<FALSE, <<>>>>
              [] txt = "{\"text\": null}" -> <<FALSE, <<>>>>
              [] txt = "{\"text\": \"  \"}" -> <<FALSE, <<" ", " ">>>>
              [] txt = "{\"text\": 5}" -> <<TRUE, <<>>>>
              [] txt = "{\"text\": \" llm \"}" -> <<FALSE, <<" ">> \o LlmText \o <<" ">>>>
    IN  IF got[1] THEN OkDot
        ELSE IF Strip(got[2]) # <<>> THEN Strip(got[2]) ELSE OkDot

\* render_reply: the service's answer decides the text; rend = "raise" is
\* client.responses.create raising, which render_reply does not catch.
render_reply(rend, language, action, data) ==
    IF rend = "raise" THEN NoReply
    ELSE [sent |-> TRUE, action |-> action, data |-> data,
          text |-> render_text(RenderOutputs[rend])]

Result(s, reply, calls) ==
    [doc |-> s.doc, tx |-> s.tx, reminders |-> s.reminders,
     reply |-> reply, calls |-> calls]

\* an exception leaves handle_message: nothing is returned
Raised(s, calls) == Result(s, NoReply, calls)

WAIT_PHRASE == "delete_account_wait_phrase"

\* brain.py 152: the test of the confirmation message
IsConfirmation(text) == Contains(PHRASE, text)

\* brain.py 155 / 214: the refusal test on can_delete_account_now's pair
Blocked(cd) == ~cd[1] /\ cd[2] # 0

BlockedData(cd) ==
    <<cd[2] \div SecondsPerHour, (cd[2] % SecondsPerHour) \div SecondsPerMinute>>

\* brain.py 162-169 / 220-222: cooldown first, then the deletion
DeleteNow(s, calls, t, fail, rend, reply_lang) ==
    LET c2 == Append(calls, "set_delete_cooldown")
        c3 == Append(c2, "delete_account_everything")
    IN  IF fail = Len(c2) THEN Raised(s, c2)
        ELSE LET s2 == [s EXCEPT !.doc = set_delete_cooldown(@, t)]
             IN  IF fail = Len(c3) THEN Raised(s2, c3)
                 ELSE Result(delete_user_everything(s2, t),
                             render_reply(rend, reply_lang, "delete_account_done", <<>>),
                             c3)

\* PendingDelete whose cooldown refusal leaves the slot as it was
PendingDelete_keeps_slot(s, calls, t, text, fail, rend, reply_lang) ==
    IF IsConfirmation(text)
    THEN LET cd == can_delete_account(s.doc, t)
             c2 == Append(calls, "set_pending")
         IN  IF Blocked(cd)
             THEN IF fail = Len(c2) THEN Raised(s, c2)
                  ELSE Result(s,
                              render_reply(rend, reply_lang, "delete_account_blocked",
                                           BlockedData(cd)),
                              c2)
             ELSE DeleteNow(s, calls, t, fail, rend, reply_lang)
    ELSE Result(s, render_reply(rend, reply_lang, "delete_account_need_phrase", <<>>),
                calls)

\* brain.py 148-173: a pending delete confirmation
PendingDelete(s, calls, t, text, fail, rend, reply_lang) ==
    IF IsConfirmation(text)
    THEN LET cd == can_delete_account(s.doc, t)
             c2 == Append(calls, "set_pending")
         IN  IF Blocked(cd)
             THEN IF fail = Len(c2) THEN Raised(s, c2)
                  ELSE Result([s EXCEPT !.doc = set_pending(@, NULL)],
                              render_reply(rend, reply_lang, "delete_account_blocked",
                                           BlockedData(cd)),
                              c2)
             ELSE DeleteNow(s, calls, t, fail, rend, reply_lang)
    ELSE Result(s, render_reply(rend, reply_lang, "delete_account_need_phrase", <<>>),
                calls)

\* brain.py 183-198 (the resolver's language names come stripped, in lower case)
SetLanguage(s, calls, route, fail, rend, reply_lang, detected_lang) ==
    LET mode == IF route.language_mode = NULL THEN "" ELSE route.language_mode
        lang == IF route.arg_language = NULL THEN "" ELSE route.arg_language
        c2 == Append(calls, "set_language_fixed")
    IN  IF mode = "auto" \/ lang = "auto"
        THEN IF fail = Len(c2) THEN Raised(s, c2)
             ELSE Result([s EXCEPT !.doc = set_language_fixed(@, NULL, "auto")],
                         render_reply(rend, detected_lang, "language_set_auto", <<>>), c2)
        ELSE IF lang = ""
        THEN Result(s, render_reply(rend, reply_lang, "need_language_name", <<>>), calls)
        ELSE IF fail = Len(c2) THEN Raised(s, c2)
             ELSE Result([s EXCEPT !.doc = set_language_fixed(@, lang, "fixed")],
                         render_reply(rend, lang, "language_set_fixed", <<>>), c2)

\* brain.py 200-206
SetBaseCurrency(s, calls, t, text, route, fail, rend, reply_lang) ==
    LET cur == _normalize_currency(Or(Or(route.currency, route.base_currency), Some(text)))
        c2 == Append(calls, "set_base_currency")
    IN  IF cur = <<>> \/ Len(cur) < 3
        THEN Result(s, render_reply(rend, reply_lang, "need_currency", <<>>), calls)
        ELSE IF fail = Len(c2) THEN Raised(s, c2)
             ELSE Result([s EXCEPT !.doc = set_base_currency(@, cur, t)],
                         render_reply(rend, reply_lang, "base_currency_set", <<>>), c2)

\* brain.py 208-226
DeleteAccount(s, calls, t, route, fail, rend, reply_lang) ==
    LET c2 == Append(calls, "set_pending")
    IN  IF route.confirm
        THEN LET cd == can_delete_account(s.doc, t)
             IN  IF Blocked(cd)
                 THEN Result(s, render_reply(rend, reply_lang, "delete_account_blocked",
                                             BlockedData(cd)), calls)
                 ELSE DeleteNow(s, calls, t, fail, rend, reply_lang)
        ELSE IF fail = Len(c2) THEN Raised(s, c2)
             ELSE Result([s EXCEPT !.doc = set_pending(@, WAIT_PHRASE)],
                         render_reply(rend, reply_lang, "delete_account_confirm", <<>>), c2)

\* brain.py 236-270
LogTransaction(s, calls, t, text, route, intent, fail, rend, reply_lang) ==
    LET settings == get_user_settings(s.doc)
        base_currency == Or(settings.base_currency, Some(USD))[1]
        amt == route.amount
        cur == _normalize_currency(Or(route.currency, Some(base_currency)))
        cat == IF route.category = NULL THEN "other" ELSE route.category
        desc == Strip(Or(route.description, Some(text))[1])
        amount_in_base == IF cur = base_currency THEN amt ELSE None
        c2 == Append(calls, "add_transaction")
    IN  IF amt = None
        THEN Result(s, render_reply(rend, reply_lang, "need_amount", <<>>), calls)
        ELSE LET payload ==
                    [type |-> IF intent = "log_expense" THEN "expense" ELSE "income",
                     amount |-> amt[1],
                     currency |-> cur,
                     base_currency |-> base_currency,
                     amount_in_base |-> amount_in_base,
                     category |-> cat,
                     description |-> desc,
                     language |-> reply_lang]
             IN  IF fail = Len(c2) THEN Raised(s, c2)
                 ELSE Result([s EXCEPT !.tx = add_transaction(@, payload, t)],
                             render_reply(rend, reply_lang, "logged", <<>>), c2)

\* brain.py 228-375: after the settings and delete branches
Dispatch(s, calls, t, text, route, intent, fail, rend, reply_lang) ==
    IF route.needs_clarification
    THEN IF Truthy(route.clarifying_question)
         THEN Result(s, [sent |-> TRUE, action |-> "clarifying_question",
                         data |-> <<>>, text |-> route.clarifying_question[1]], calls)
         ELSE Result(s, render_reply(rend, reply_lang, "clarify_generic", <<>>), calls)
    ELSE IF intent \in {"log_expense", "log_income"}
    THEN LogTransaction(s, calls, t, text, route, intent, fail, rend, reply_lang)
    ELSE IF intent = "show_summary"
    THEN Result(s, render_reply(rend, reply_lang, "summary", <<>>), calls)
    ELSE IF intent = "show_category"
    THEN Result(s, render_reply(rend, reply_lang, "category_total", <<>>), calls)
    ELSE IF intent = "show_list"
    THEN Result(s, render_reply(rend, reply_lang, "list", <<>>), calls)
    ELSE IF intent = "smalltalk"
    THEN Result(s, render_reply(rend, reply_lang, "smalltalk", <<>>), calls)
    ELSE Result(s, render_reply(rend, reply_lang, "unknown", <<>>), calls)

\* handle_message that does not ask for the base currency first
handle_message_no_gate(s, t, text, route, fail, rend) ==
    LET c1 == <<"ensure_user">>
    IN  IF fail = Len(c1) THEN Raised(s, c1)
        ELSE
        LET s1 == [s EXCEPT !.doc = ensure_user(@, t)]
            settings == get_user_settings(s1.doc)
            language_mode ==
                IF settings.language_mode = NULL THEN "auto" ELSE settings.language_mode
            language_fixed == settings.language_fixed
        IN  IF route.raises THEN Raised(s1, c1)
            ELSE
            LET detected_lang == IF route.language = NULL THEN "en" ELSE route.language
                intent == IF route.intent = NULL THEN "unknown" ELSE route.intent
                reply_lang ==
                    IF language_mode = "fixed" /\ language_fixed # NULL
                    THEN language_fixed ELSE detected_lang
                pending == get_pending(s1.doc)
            IN  IF pending = WAIT_PHRASE
                THEN PendingDelete(s1, c1, t, text, fail, rend, reply_lang)
                ELSE IF intent = "set_language"
                THEN SetLanguage(s1, c1, route, fail, rend, reply_lang, detected_lang)
                ELSE IF intent = "set_base_currency"
                THEN SetBaseCurrency(s1, c1, t, text, route, fail, rend, reply_lang)
                ELSE IF intent = "delete_account"
                THEN DeleteAccount(s1, c1, t, route, fail, rend, reply_lang)
                ELSE Dispatch(s1, c1, t, text, route, intent, fail, rend, reply_lang)

\* Brain.handle_message on s = [doc, tx, reminders] at time t.
\*   route: what route_message(text) gives (route.raises: it raised)
\*   fail:  n when the n-th storage write of the turn raises, 0 when none does
\*   rend:  what the text-generation service does in render_reply
handle_message(s, t, text, route, fail, rend) ==
    LET c1 == <<"ensure_user">>
    IN  IF fail = Len(c1) THEN Raised(s, c1)
        ELSE
        LET s1 == [s EXCEPT !.doc = ensure_user(@, t)]
            settings == get_user_settings(s1.doc)
            language_mode ==
                IF settings.language_mode = NULL THEN "auto" ELSE settings.language_mode
            language_fixed == settings.language_fixed
            base_currency == settings.base_currency
        IN  IF route.raises THEN Raised(s1, c1)
            ELSE
            LET detected_lang == IF route.language = NULL THEN "en" ELSE route.language
                intent == IF route.intent = NULL THEN "unknown" ELSE route.intent
                reply_lang ==
                    IF language_mode = "fixed" /\ language_fixed # NULL
                    THEN language_fixed ELSE detected_lang
                pending == get_pending(s1.doc)
            IN  IF pending = WAIT_PHRASE
                THEN PendingDelete(s1, c1, t, text, fail, rend, reply_lang)
                ELSE IF ~Truthy(base_currency) /\ intent # "set_base_currency"
                THEN Result(s1, render_reply(rend, reply_lang, "ask_base_currency", <<>>), c1)
                ELSE IF intent = "set_language"
                THEN SetLanguage(s1, c1, route, fail, rend, reply_lang, detected_lang)
                ELSE IF intent = "set_base_currency"
                THEN SetBaseCurrency(s1, c1, t, text, route, fail, rend, reply_lang)
                ELSE IF intent = "delete_account"
                THEN DeleteAccount(s1, c1, t, route, fail, rend, reply_lang)
                ELSE Dispatch(s1, c1, t, text, route, intent, fail, rend, reply_lang)

----------------------------------------------------------------------------
(* The inputs of a turn *)

Question == <<"e","x","p","e","n","s","e","?">>

\* What the resolver found nothing in: every key absent
NoRoute ==
    [raises |-> FALSE, language |-> NULL, intent |-> NULL, confirm |-> FALSE,
     amount |-> None, currency |-> None, base_currency |-> None,
     language_mode |-> NULL, arg_language |-> NULL, category |-> NULL,
     description |-> None, needs_clarification |-> FALSE,
     clarifying_question |-> None]

In(intent) == [NoRoute EXCEPT !.intent = intent, !.language = "ru"]

Amounts == {None, Some(5), Some(0), Some(-5)}
TxCurrencies == {Some(<<" ","u","s","d">>), Some(<<"b","i","t","c","o","i","n">>)}
BaseCurrencies == {None, Some(<<"e","u","r">>), Some(<<"x">>)}

\* What the resolver returns for a message about money or settings
RouteOutputs ==
    {[NoRoute EXCEPT !.raises = TRUE], NoRoute, In("smalltalk"),
     In("show_summary"), In("show_category"), In("show_list")}
    \cup {[In("set_language") EXCEPT !.language_mode = m[1], !.arg_language = m[2]] :
            m \in {<<"auto", NULL>>, <<NULL, "de">>, <<NULL, NULL>>}}
    \cup {[In("set_base_currency") EXCEPT !.currency = c] : c \in BaseCurrencies}
    \cup {[In("delete_account") EXCEPT !.confirm = b] : b \in BOOLEAN}
    \cup {[In("unknown") EXCEPT !.needs_clarification = TRUE,
                                !.clarifying_question = q] : q \in {None, Some(Question)}}
    \cup {[In("log_expense") EXCEPT !.amount = a] : a \in Amounts}
    \cup {[In("log_expense") EXCEPT !.amount = Some(5), !.currency = c] :
            c \in TxCurrencies}
    \cup {[In("log_income") EXCEPT !.amount = Some(5), !.category = "food"]}

\* The messages about money and settings, and what the resolver makes of them
LedgerInputs == {<<Coffee5, r>> : r \in RouteOutputs}

\* What the resolver returns for the messages about deletion
DeleteRoutes ==
    {[NoRoute EXCEPT !.raises = TRUE], NoRoute}
    \cup {[In("delete_account") EXCEPT !.confirm = b] : b \in BOOLEAN}

\* What it returns for the messages that prepare an account to delete
SetupRoutes ==
    {[In("set_base_currency") EXCEPT !.currency = Some(<<"e","u","r">>)],
     [In("set_language") EXCEPT !.arg_language = "de"],
     [In("log_expense") EXCEPT !.amount = Some(5)]}

\* The messages about deletion, and what the resolver makes of them
DeleteInputs ==
    {<<t, r>> : t \in Texts, r \in DeleteRoutes}
    \cup {<<Coffee5, r>> : r \in SetupRoutes}

\* A turn makes at most three storage writes (ensure_user, set_delete_cooldown,
\* delete_account_everything).
MaxWrites == 3

Failures == 0..MaxWrites

Renderings == {"text", "raise"}

----------------------------------------------------------------------------
(* route_message (router_llm.py) *)

ActionEnum ==
    {"greet", "help", "set_language", "set_currency", "add_transaction",
     "query_summary", "query_list", "add_reminder", "delete_account",
     "offtopic", "unknown"}

REQUIRED ==
    {"action", "reply", "language_set", "base_currency_set", "period",
     "transaction", "reminder"}

\* A JSON value: its type and, for an object, its keys, the value of
\* "action", whether "reply" is a non-empty string, and the keys whose value
\* is null.
Json(type, keys, action, reply, nulls) ==
    [type |-> type, keys |-> keys, action |-> action, reply |-> reply, nulls |-> nulls]

JSONDecodeError == Json("JSONDecodeError", {}, NULL, FALSE, {})

TxtBlank == "  "
TxtProse == "I am not sure what you mean"
TxtTruncated == "{\"action\": \"greet\", \"reply\": \"Hi"
TxtArray == "[1, 2]"
TxtNumber == "42"
TxtNull == "null"
TxtString == "\"greet\""
TxtEmptyObject == "{}"
TxtTwoKeys == "{\"action\": \"greet\", \"reply\": \"Hi\"}"
TxtBadAction == "{\"action\": \"dance\", \"reply\": \"Hi\", \"language_set\": null, \"base_currency_set\": null, \"period\": null, \"transaction\": null, \"reminder\": null}"
TxtGreet == "{\"action\": \"greet\", \"reply\": \"Hi\", \"language_set\": \"en\", \"base_currency_set\": null, \"period\": null, \"transaction\": null, \"reminder\": null}"
TxtAddTx == "{\"action\": \"add_transaction\", \"reply\": \"ok\", \"language_set\": null, \"base_currency_set\": null, \"period\": null, \"transaction\": {\"type\": \"expense\", \"amount\": 5, \"category\": \"coffee\", \"note\": null}, \"reminder\": null}"

OutputTexts ==
    {"", TxtBlank, TxtProse, TxtTruncated, TxtArray, TxtNumber, TxtNull, TxtString,
     TxtEmptyObject, TxtTwoKeys, TxtBadAction, TxtGreet, TxtAddTx}

\* json.loads on the texts above
json_loads(txt) ==
    CASE txt \in {"", TxtBlank, TxtProse, TxtTruncated} -> JSONDecodeError
      [] txt = TxtArray -> Json("array", {}, NULL, FALSE, {})
      [] txt = TxtNumber -> Json("number", {}, NULL, FALSE, {})
      [] txt = TxtNull -> Json("null", {}, NULL, FALSE, {})
      [] txt = TxtString -> Json("string", {}, NULL, FALSE, {})
      [] txt = TxtEmptyObject -> Json("object", {}, NULL, FALSE, {})
      [] txt = TxtTwoKeys -> Json("object", {"action", "reply"}, "greet", TRUE, {})
      [] txt = TxtBadAction ->
            Json("object", REQUIRED, "dance", TRUE, REQUIRED \ {"action", "reply"})
      [] txt = TxtGreet ->
            Json("object", REQUIRED, "greet", TRUE,
                 REQUIRED \ {"action", "reply", "language_set"})
      [] txt = TxtAddTx ->
            Json("object", REQUIRED, "add_transaction", TRUE,
                 REQUIRED \ {"action", "reply", "transaction"})

\* router_llm.py 102-110 and 117-125: the fallback object
Fallback == Json("object", REQUIRED, "unknown", TRUE, REQUIRED \ {"action", "reply"})

NotRouted == [raised |-> FALSE, returned |-> FALSE, value |-> JSONDecodeError]

\* route_message without the try around json.loads
route_message_no_except(raises, txt) ==
    IF raises THEN [raised |-> TRUE, returned |-> FALSE, value |-> JSONDecodeError]
    ELSE IF txt = None \/ txt[1] = ""
    THEN [raised |-> FALSE, returned |-> TRUE, value |-> Fallback]
    ELSE LET data == json_loads(txt[1])
         IN  IF data = JSONDecodeError
             THEN [raised |-> TRUE, returned |-> FALSE, value |-> JSONDecodeError]
             ELSE [raised |-> FALSE, returned |-> TRUE, value |-> data]

\* route_message(openai_client, prefs, user_text) when the service answers
\* with output_text = txt (None: the attribute is absent or None) or, with
\* raises, when responses.create raises
route_message(raises, txt) ==
    IF raises THEN [raised |-> TRUE, returned |-> FALSE, value |-> JSONDecodeError]
    ELSE IF txt = None \/ txt[1] = ""
    THEN [raised |-> FALSE, returned |-> TRUE, value |-> Fallback]
    ELSE LET data == json_loads(txt[1])
         IN  IF data = JSONDecodeError
             THEN [raised |-> FALSE, returned |-> TRUE, value |-> Fallback]
             ELSE [raised |-> FALSE, returned |-> TRUE, value |-> data]

Prefs == [language : {"auto", "ru"}, base_currency : {None, Some(USD)}]

NoCall == [called |-> FALSE, prefs |-> [language |-> "auto", base_currency |-> None],
           user_text |-> EmptyText, raises |-> FALSE, output_text |-> None]

----------------------------------------------------------------------------
(* The state machine *)

Idle ==
    [op |-> "none", text |-> EmptyText, raises |-> FALSE, intent |-> NULL,
     confirm |-> FALSE, amount |-> None, failed |-> "none", reply |-> NoReply,
     calls |-> <<>>,
     before |-> [tx |-> 0, reminders |-> 0, pending |-> NULL]]

NoOp == [op |-> "none"]

\* main.py: no document for the user yet (the fields the handlers read back)
NoUser ==
    [exists |-> FALSE, done |-> FALSE, step |-> "income", since_summary |-> 0,
     summaries |-> 0]

\* main.py: the updates of the user, none of them handled yet
MaxUpdates == 3

NoTurns ==
    [u \in 1..MaxUpdates |-> [pc |-> "queued", handler |-> "none", todo |-> <<>>,
                              replies |-> 0, text |-> "none", advised |-> FALSE,
                              summary_calls |-> 0]]

Init ==
    /\ now = 0
    /\ doc = NoDoc
    /\ tx = <<>>
    /\ reminders = <<>>
    /\ last = Idle
    /\ routeIn = NoCall
    /\ routed = NotRouted
    /\ call = NoOp
    /\ mdoc = NoUser
    /\ turns = NoTurns

\* Time passes.
Tick ==
    /\ last = Idle
    /\ \E t \in Times : t > now /\ now' = t
    /\ UNCHANGED <<doc, tx, reminders, last, routeIn, routed, call, mdoc, turns>>

\* The storage write that raised in a turn, if any
FailedIn(res, fail) ==
    IF fail = Len(res.calls) /\ fail > 0 THEN res.calls[fail] ELSE "none"

\* One turn: Brain.handle_message(user, text), taken when the previous turn
\* is over.  At most one fault a turn.
TurnWith(inputs) ==
    /\ last = Idle
    /\ \E inp \in inputs, fail \in Failures, rend \in Renderings :
        LET text == inp[1]
            route == inp[2]
            res == handle_message([doc |-> doc, tx |-> tx, reminders |-> reminders],
                                  now, text, route, fail, rend)
        IN  /\ fail # 0 => rend = "text" /\ ~route.raises
            /\ Len(res.tx) <= MaxTx
            /\ doc' = res.doc
            /\ tx' = res.tx
            /\ reminders' = res.reminders
            /\ last' = [op |-> "handle_message", text |-> text,
                        raises |-> route.raises, intent |-> route.intent,
                        confirm |-> route.confirm, amount |-> route.amount,
                        failed |-> FailedIn(res, fail),
                        reply |-> res.reply, calls |-> res.calls,
                        before |-> [tx |-> Len(tx), reminders |-> Len(reminders),
                                    pending |-> doc.pending]]
            /\ UNCHANGED <<now, routeIn, routed, call, mdoc, turns>>

\* The turn is over: its reply, if any, has gone to the chat.
Deliver ==
    /\ last # Idle
    /\ last' = Idle
    /\ UNCHANGED <<now, doc, tx, reminders, routeIn, routed, call, mdoc, turns>>

\* Storage.add_reminder(user_id, when_iso, text)
AddReminder ==
    /\ last = Idle
    /\ Len(reminders) < MaxReminders
    /\ reminders' = add_reminder(reminders, now, Coffee5, "auto")
    /\ UNCHANGED <<now, doc, tx, last, routeIn, routed, call, mdoc, turns>>

\* The deletion protocol over time: messages about deletion, the clock
Turn == TurnWith(DeleteInputs)

Next == Tick \/ Turn \/ Deliver \/ AddReminder

Spec == Init /\ [][Next]_vars

\* The ledger and the settings: every resolver output, at one instant
LedgerTurn == TurnWith(LedgerInputs)

NextLedger == LedgerTurn \/ Deliver

SpecLedger == Init /\ [][NextLedger]_vars

\* One call of route_message
RouteMessage ==
    \E prefs \in Prefs, text \in Texts \ {EmptyText}, raises \in BOOLEAN,
       out \in {None} \cup {Some(o) : o \in OutputTexts} :
        /\ raises => out = None
        /\ routeIn' = [called |-> TRUE, prefs |-> prefs, user_text |-> text,
                       raises |-> raises, output_text |-> out]
        /\ routed' = route_message(raises, out)
        /\ UNCHANGED <<now, doc, tx, reminders, last, call, mdoc, turns>>

NextRouter == RouteMessage

SpecRouter == Init /\ [][NextRouter]_vars

\* The frame of the calls below: the stored state is not touched
Untouched == UNCHANGED <<now, doc, tx, reminders, last, routeIn, routed, mdoc, turns>>

\* One call of render_reply(language, action, data)
RenderReply ==
    LET RenderLanguages == {"en", "ru", "de"}
        RenderActions ==
            {"ask_base_currency", "need_amount", "logged", "summary", "list",
             "delete_account_confirm", "delete_account_done", "unknown"}
        RenderOutcomes == {"raise"} \cup DOMAIN RenderOutputs
    IN
    \E language \in RenderLanguages, action \in RenderActions,
       rend \in RenderOutcomes :
        /\ call' = [op |-> "render_reply", language |-> language,
                    action |-> action, rend |-> rend,
                    result |-> render_reply(rend, language, action, <<>>)]
        /\ Untouched

NextRender == RenderReply

SpecRender == Init /\ [][NextRender]_vars

----------------------------------------------------------------------------
(* Summaries.  Amounts are whole numbers of currency units; `items` is what
   the period query returned. *)

MaxItems == 2

\* dict[key] = dict.get(key, 0) + amt
DictAdd(d, key, amt) ==
    [k \in DOMAIN d \cup {key} |->
        IF k = key THEN (IF key \in DOMAIN d THEN d[key] ELSE 0) + amt ELSE d[k]]

\* brain.py 279-296: the loop of show_summary, from item i on
RECURSIVE show_summary_loop(_, _, _, _)
show_summary_loop(items, base_currency, i, acc) ==
    IF i > Len(items) THEN acc
    ELSE LET item == items[i]
             ttype == item.type
             a_base == item.amount_in_base
             cur == item.currency
             amt == item.amount
         IN  IF a_base = None
             THEN show_summary_loop(items, base_currency, i + 1,
                    [acc EXCEPT !.excluded = DictAdd(@, cur, amt)])
             ELSE IF ttype = "income"
             THEN show_summary_loop(items, base_currency, i + 1,
                    [acc EXCEPT !.inc = @ + a_base[1]])
             ELSE show_summary_loop(items, base_currency, i + 1,
                    [acc EXCEPT !.exp = @ + a_base[1]])

\* brain.py 272-307: the data of the "summary" reply
show_summary(items, base_currency) ==
    LET acc == show_summary_loop(items, base_currency, 1,
                    [inc |-> 0, exp |-> 0, excluded |-> [c \in {} |-> 0]])
    IN  [base_currency |-> base_currency, income |-> acc.inc, expense |-> acc.exp,
         net |-> acc.inc - acc.exp, excluded |-> acc.excluded]

\* storage.py 164-180: the loop of compute_summary, from item i on
RECURSIVE compute_summary_loop(_, _, _)
compute_summary_loop(items, i, acc) ==
    IF i > Len(items) THEN acc
    ELSE LET it == items[i]
             t == it.type
             amt == it.amount
             cat == it.category
             a1 == IF t = "income" THEN [acc EXCEPT !.income = @ + amt]
                   ELSE IF t = "expense" THEN [acc EXCEPT !.expense = @ + amt]
                   ELSE acc
             a2 == [a1 EXCEPT !.by_cat = DictAdd(@, cat, IF t = "expense" THEN amt ELSE 0)]
         IN  compute_summary_loop(items, i + 1, a2)

\* Storage.compute_summary on the items list_transactions returned (at most
\* five categories occur, so the cut to the top five drops none; their order
\* is left out)
compute_summary(items) ==
    LET acc == compute_summary_loop(items, 1,
                    [income |-> 0, expense |-> 0, by_cat |-> [c \in {} |-> 0]])
    IN  [income |-> acc.income, expense |-> acc.expense,
         net |-> acc.income - acc.expense,
         top_expense_categories |->
            {<<c, acc.by_cat[c]>> : c \in {k \in DOMAIN acc.by_cat : acc.by_cat[k] > 0}},
         count |-> Len(items)]

\* The ledger entries handle_message writes for a user whose base currency
\* is base (brain.py 249-260)
Ledgers(base) ==
    LET Entries ==
            {[type |-> ty, amount |-> a, currency |-> c, base_currency |-> base,
              amount_in_base |-> IF c = base THEN Some(a) ELSE None,
              category |-> IF a = 5 THEN "food" ELSE "other"] :
                ty \in {"income", "expense"}, a \in {5, 7}, c \in {USD, EUR}}
    IN  UNION {[1..n -> Entries] : n \in 0..MaxItems}

\* show_summary of handle_message on a ledger
ShowSummary ==
    \E base \in {USD, EUR} : \E items \in Ledgers(base) :
        /\ call' = [op |-> "show_summary", items |-> items, base_currency |-> base,
                    result |-> show_summary(items, base)]
        /\ Untouched

\* Storage.compute_summary on a ledger
ComputeSummary ==
    \E base \in {USD, EUR} : \E items \in Ledgers(base) :
        /\ call' = [op |-> "compute_summary", items |-> items, base_currency |-> base,
                    result |-> compute_summary(items)]
        /\ Untouched

NextSummary == ShowSummary \/ ComputeSummary

SpecSummary == Init /\ [][NextSummary]_vars

----------------------------------------------------------------------------
(* delete_user_everything called twice in succession *)

\* delete_user_everything at t1 and again at t2, the same instant or the next
DeleteTwice ==
    LET \* One ledger entry and one reminder, as add_transaction and add_reminder
        \* store them
        AnEntry ==
            [type |-> "expense", amount |-> 5, currency |-> EUR, base_currency |-> EUR,
             amount_in_base |-> Some(5), category |-> "other", description |-> Strip(Coffee5),
             language |-> "ru"]
        AReminder == [when |-> 0, text |-> Coffee5, language |-> "auto", status |-> "pending"]
        \* Collection sizes around the batch size of _delete_collection
        Sizes == {0, 1, batch_size, batch_size + 1, 2 * batch_size + 1}
        \* User documents of accounts in use
        Docs ==
            {[NoDoc EXCEPT !.exists = TRUE, !.language = "auto"],
             [NoDoc EXCEPT !.exists = TRUE, !.language = "auto", !.base_currency = Some(EUR),
                           !.updated_at = Some(0)],
             [NoDoc EXCEPT !.exists = TRUE, !.language = "auto", !.base_currency = Some(EUR),
                           !.language_mode = "fixed", !.language_fixed = "de",
                           !.pending = WAIT_PHRASE],
             [NoDoc EXCEPT !.exists = TRUE, !.language = "auto", !.base_currency = Some(USD),
                           !.last_delete_at = Some(0)]}
        Repeat(x, n) == [i \in 1..n |-> x]
    IN
    \E d \in Docs, n \in Sizes, m \in Sizes, t1 \in {0, CooldownTicks}, dt \in {0, 1} :
        LET s == [doc |-> d, tx |-> Repeat(AnEntry, n), reminders |-> Repeat(AReminder, m)]
            first == delete_user_everything(s, t1)
            second == delete_user_everything(first, t1 + dt)
        IN  /\ call' = [op |-> "delete_twice", before |-> [doc |-> d, tx |-> n, reminders |-> m],
                        t1 |-> t1, t2 |-> t1 + dt, first |-> first, second |-> second]
            /\ Untouched

NextDelete == DeleteTwice

SpecDelete == Init /\ [][NextDelete]_vars

----------------------------------------------------------------------------
(* The rule-based resolvers: parser.py, router_fallback.py, utils.py.
   A Cyrillic letter is written as one character "~x", x its Latin
   counterpart, one to one, so that `in` on Russian words is computed like
   on English ones; an upper-case one is "^x".  Amounts
   are in hundredths. *)

INCOME_WORDS ==
    {<<"~p", "~r", "~i", "~w", "~l", "~o">>,
     <<"~p", "~o", "~l", "~u", "~C", "~i", "~l">>,
     <<"~p", "~o", "~l", "~u", "~C", "~i", "~l", "~a">>,
     <<"~z", "~a", "~r", "~a", "~b", "~o", "~t", "~a", "~l">>,
     <<"~z", "~a", "~r", "~a", "~b", "~o", "~t", "~a", "~l", "~a">>,
     <<"~d", "~o", "~h", "~o", "~d">>,
     <<"~p", "~o", "~s", "~t", "~u", "~p", "~i", "~l", "~o">>,
     <<"~o", "~p", "~l", "~a", "~t", "~i", "~l", "~i">>,
     <<"~p", "~e", "~r", "~e", "~v", "~e", "~l", "~i">>,
     <<"~p", "~l", "~a", "~t", "~e", "~j", " ", "~p", "~r", "~i", "~w", "~e", "~l">>}

EXPENSE_WORDS ==
    {<<"~p", "~o", "~t", "~r", "~a", "~t", "~i", "~l">>,
     <<"~p", "~o", "~t", "~r", "~a", "~t", "~i", "~l", "~a">>,
     <<"~k", "~u", "~p", "~i", "~l">>,
     <<"~k", "~u", "~p", "~i", "~l", "~a">>,
     <<"~z", "~a", "~p", "~l", "~a", "~t", "~i", "~l">>,
     <<"~z", "~a", "~p", "~l", "~a", "~t", "~i", "~l", "~a">>,
     <<"~r", "~a", "~s", "~h", "~o", "~d">>,
     <<"~o", "~p", "~l", "~a", "~t", "~i", "~l">>,
     <<"~o", "~p", "~l", "~a", "~t", "~i", "~l", "~a">>,
     <<"~s", "~p", "~i", "~s", "~a", "~l", "~i">>}

SHOW_WORDS ==
    {<<"~p", "~o", "~k", "~a", "~j", "~i">>,
     <<"~p", "~o", "~k", "~a", "~z", "~a", "~t", "~Q">>,
     <<"~s", "~v", "~o", "~d", "~k", "~a">>,
     <<"~i", "~t", "~o", "~g", "~i">>,
     <<"~s", "~k", "~o", "~l", "~Q", "~k", "~o">>,
     <<"~p", "~o", "~s", "~C", "~i", "~t", "~a", "~y">>,
     <<"~d", "~a", "~y">>}

DELETE_ALL_WORDS ==
    {<<"~u", "~d", "~a", "~l", "~i", " ", "~v", "~s", "~E">>,
     <<"~u", "~d", "~a", "~l", "~i", " ", "~v", "~s", "~e">>,
     <<"~u", "~d", "~a", "~l", "~i", "~t", "~Q", " ", "~v", "~s", "~E">>,
     <<"~u", "~d", "~a", "~l", "~i", "~t", "~Q", " ", "~v", "~s", "~e">>,
     <<"~o", "~C", "~i", "~s", "~t", "~i", " ", "~v", "~s", "~E">>,
     <<"~o", "~C", "~i", "~s", "~t", "~i", " ", "~v", "~s", "~e">>,
     <<"~u", "~d", "~a", "~l", "~i", "~t", "~Q", " ", "~a", "~k", "~k", "~a", "~u", "~n", "~t">>,
     <<"~s", "~t", "~e", "~r", "~e", "~t", "~Q", " ", "~v", "~s", "~E">>,
     <<"~s", "~t", "~e", "~r", "~e", "~t", "~Q", " ", "~v", "~s", "~e">>}

\* CATEGORY_HINTS, in the order of the dictionary
CATEGORY_HINTS ==
    <<<<<<"~t", "~o", "~p", "~l", "~i", "~v", "~o">>,
        {<<"~t", "~o", "~p", "~l", "~i", "~v", "~o">>,
         <<"~b", "~e", "~n", "~z">>,
         <<"~b", "~e", "~n", "~z", "~i", "~n">>,
         <<"~d", "~i", "~z", "~e", "~l">>,
         <<"~d", "~i", "~z", "~e", "~l", "~Q">>, <<"f", "u", "e", "l">>,
         <<"g", "a", "s">>}>>,
      <<<<"~e", "~d", "~a">>,
        {<<"~e", "~d", "~a">>, <<"~k", "~a", "~f", "~e">>,
         <<"~b", "~u", "~r", "~g", "~e", "~r">>,
         <<"~b", "~u", "~r", "~g", "~e", "~r", "~Y">>,
         <<"~m", "~a", "~k">>, <<"m", "c", "d", "o", "n", "a", "l", "d">>,
         <<"r", "e", "s", "t", "a", "u", "r", "a", "n", "t">>,
         <<"~r", "~e", "~s", "~t", "~o", "~r", "~a", "~n">>,
         <<"c", "o", "f", "f", "e", "e">>, <<"~k", "~o", "~f", "~e">>}>>,
      <<<<"~k", "~o", "~m", "~m", "~u", "~n", "~a", "~l", "~k", "~a">>,
        {<<"~s", "~C", "~e", "~t">>, <<"~s", "~C", "~E", "~t">>,
         <<"b", "i", "l", "l">>, <<"w", "a", "t", "e", "r">>,
         <<"e", "l", "e", "c", "t", "r", "i", "c">>,
         <<"g", "a", "s", " ", "b", "i", "l", "l">>,
         <<"~i", "~n", "~t", "~e", "~r", "~n", "~e", "~t">>,
         <<"p", "h", "o", "n", "e">>,
         <<"~t", "~e", "~l", "~e", "~f", "~o", "~n">>,
         <<"~v", "~o", "~d", "~a">>, <<"~x", "~l", "~e", "~k", "~t", "~r">>}>>,
      <<<<"~k", "~r", "~e", "~d", "~i", "~t">>,
        {<<"~k", "~r", "~e", "~d", "~i", "~t">>, <<"l", "o", "a", "n">>,
         <<"~p", "~l", "~a", "~t", "~e", "~j">>,
         <<"~p", "~l", "~a", "~t", "~E", "~j">>,
         <<"c", "a", "r", " ", "p", "a", "y", "m", "e", "n", "t">>,
         <<"~m", "~a", "~w", "~i", "~n", "~a", " ", "~v", " ", "~k", "~r", "~e", "~d", "~i", "~t">>}>>,
      <<<<"~s", "~t", "~r", "~a", "~h", "~o", "~v", "~k", "~a">>,
        {<<"~s", "~t", "~r", "~a", "~h", "~o", "~v">>,
         <<"i", "n", "s", "u", "r", "a", "n", "c", "e">>}>>>>

\* parse_intent line 144: the confirmation phrases
DELETE_CONFIRM_WORDS ==
    {<<"~d", "~a", ",", " ", "~u", "~d", "~a", "~l", "~i", " ", "~v", "~s", "~E">>,
     <<"~d", "~a", ",", " ", "~u", "~d", "~a", "~l", "~i", " ", "~v", "~s", "~e">>}

\* The pieces the messages of the model are made of
Fr ==
    [DeleteRu |-> <<"~u", "~d", "~a", "~l", "~i", " ", "~v", "~s", "~E">>,
     ShowRu |-> <<"~p", "~o", "~k", "~a", "~j", "~i">>,
     BoughtRu |-> <<"~k", "~u", "~p", "~i", "~l">>,
     GotRu |-> <<"~p", "~o", "~l", "~u", "~C", "~i", "~l">>,
     DeleteEn |-> <<"d", "e", "l", "e", "t", "e", " ", "a", "c", "c", "o", "u", "n", "t">>,
     Hello |-> <<"h", "e", "l", "l", "o">>,
     Show |-> <<"s", "h", "o", "w">>,
     Summary |-> <<"s", "u", "m", "m", "a", "r", "y">>,
     Number |-> <<"1", "0", "0">>,
     Coffee |-> <<"c", "o", "f", "f", "e", "e">>,
     Xyz |-> <<"x", "y", "z">>,
     ConfirmRu |-> <<"~d", "~a", ",", " ", "~u", "~d", "~a", "~l", "~i", " ", "~v", "~s", "~E">>,
     ConfirmRuPlain |-> <<"~d", "~a", ",", " ", "~u", "~d", "~a", "~l", "~i", " ", "~v", "~s", "~e">>,
     ConfirmRuUpper |-> <<"^d", "^a", ",", " ", "^u", "^d", "^a", "^l", "^i", " ", "^v", "^s", "^E">>]

IsDigit(c) == c \in {"0", "1", "2", "3", "4", "5", "6", "7", "8", "9"}

DigitVal(c) ==
    CASE c = "0" -> 0 [] c = "1" -> 1 [] c = "2" -> 2 [] c = "3" -> 3 [] c = "4" -> 4
      [] c = "5" -> 5 [] c = "6" -> 6 [] c = "7" -> 7 [] c = "8" -> 8 [] c = "9" -> 9

\* The length of the run of digits of s that starts at i (0: none)
RECURSIVE DigitsFrom(_, _)
DigitsFrom(s, i) ==
    IF i >= 1 /\ i <= Len(s) /\ IsDigit(s[i]) THEN 1 + DigitsFrom(s, i + 1) ELSE 0

\* int() of a run of digits
RECURSIVE IntOf(_)
IntOf(ds) ==
    IF ds = <<>> THEN 0 ELSE 10 * IntOf(SubSeq(ds, 1, Len(ds) - 1)) + DigitVal(ds[Len(ds)])

Min(a, b) == IF a < b THEN a ELSE b
Max(a, b) == IF a > b THEN a ELSE b

\* any(w in t for w in words)
ContainsAny(words, t) == \E w \in words : Contains(w, t)

\* The number of digits after a separator of seps at position i, at most two
\* (0: no fraction there): the (?:[.,]\d{1,2})? of the patterns
FractionAt(s, i, seps) ==
    IF i <= Len(s) /\ s[i] \in seps THEN Min(2, DigitsFrom(s, i + 1)) ELSE 0

\* The length of the match of \d+(?:[.,]\d{1,2})? at the digit s[i]
NumLen(s, i) ==
    LET L == DigitsFrom(s, i)
        F == FractionAt(s, i + L, {".", ","})
    IN  IF F > 0 THEN L + 1 + F ELSE L

\* float() of L digits at i and F digits of fraction, in hundredths
Hundredths(s, i, L, F) ==
    100 * IntOf(SubSeq(s, i, i + L - 1))
        + (IF F = 0 THEN 0
           ELSE IF F = 1 THEN 10 * DigitVal(s[i + L + 1])
           ELSE IntOf(SubSeq(s, i + L + 1, i + L + 2)))

\* parser._extract_amount: MONEY_RE.search finds the first number of the text
_extract_amount(text) ==
    LET \* The place of the first digit of s (0: none)
        FirstDigit(s) ==
            IF \E i \in 1..Len(s) : IsDigit(s[i])
            THEN CHOOSE i \in 1..Len(s) : IsDigit(s[i]) /\ \A j \in 1..(i - 1) : ~IsDigit(s[j])
            ELSE 0
        i == FirstDigit(text)
        L == DigitsFrom(text, i)
        F == FractionAt(text, i + L, {".", ","})
    IN  IF i = 0 THEN None ELSE Some(Hundredths(text, i, L, F))

\* re.sub(r"[\$]?\d+(?:[.,]\d{1,2})?", repl, s), from position i on
RECURSIVE SubNumbers(_, _, _)
SubNumbers(s, repl, i) ==
    IF i > Len(s) THEN <<>>
    ELSE IF s[i] = "$" /\ DigitsFrom(s, i + 1) > 0
    THEN repl \o SubNumbers(s, repl, i + 1 + NumLen(s, i + 1))
    ELSE IF IsDigit(s[i])
    THEN repl \o SubNumbers(s, repl, i + NumLen(s, i))
    ELSE <<s[i]>> \o SubNumbers(s, repl, i + 1)

\* re.sub(r"\s+", " ", s)
RECURSIVE CollapseSpaces(_)
CollapseSpaces(s) ==
    IF s = <<>> THEN <<>>
    ELSE IF IsSpace(Head(s))
    THEN <<" ">> \o CollapseSpaces(LStrip(s))
    ELSE <<Head(s)>> \o CollapseSpaces(Tail(s))

\* s.split(" ") of a text without leading, trailing or double spaces
RECURSIVE Split(_)
Split(s) ==
    IF s = <<>> THEN <<>>
    ELSE IF \E i \in 1..Len(s) : s[i] = " "
    THEN LET i == CHOOSE k \in 1..Len(s) : s[k] = " " /\ \A j \in 1..(k - 1) : s[j] # " "
         IN  <<SubSeq(s, 1, i - 1)>> \o Split(SubSeq(s, i + 1, Len(s)))
    ELSE <<s>>

\* " ".join(words)
RECURSIVE Join(_)
Join(words) ==
    IF words = <<>> THEN <<>>
    ELSE IF Len(words) = 1 THEN words[1]
    ELSE words[1] \o <<" ">> \o Join(Tail(words))

\* [w for w in words if w.lower() not in stop]
RECURSIVE Without(_, _)
Without(words, stop) ==
    IF words = <<>> THEN <<>>
    ELSE (IF Lower(Head(words)) \in stop THEN <<>> ELSE <<Head(words)>>)
            \o Without(Tail(words), stop)

\* parser._guess_type
_guess_type(text) ==
    LET t == Lower(text)
    IN  IF ContainsAny(INCOME_WORDS, t) THEN "income"
        ELSE IF ContainsAny(EXPENSE_WORDS, t) THEN "expense"
        ELSE "expense"

\* parser._guess_category
_guess_category(text) ==
    LET \* _guess_category line 69: the words left out of the label
        StopWords ==
            SHOW_WORDS \cup
            {<<"~z", "~a">>, <<"~n", "~a">>, <<"~p", "~o">>, <<"~v">>,
             <<"~v", "~o">>, <<"~x", "~t", "~o", "~t">>, <<"~x", "~t", "~u">>,
             <<"~x", "~t", "~i">>, <<"~p", "~r", "~o", "~w", "~l", "~Y", "~y">>,
             <<"~p", "~r", "~o", "~w", "~l", "~u", "~U">>,
             <<"~p", "~r", "~o", "~w", "~l", "~o", "~e">>}
        Other == <<"o", "t", "h", "e", "r">>
        t == Lower(text)
        hit == {i \in 1..Len(CATEGORY_HINTS) : ContainsAny(CATEGORY_HINTS[i][2], t)}
        cleaned == Strip(CollapseSpaces(SubNumbers(text, <<" ">>, 1)))
        words == Without(Split(cleaned), StopWords)
    IN  IF hit # {}
        THEN CATEGORY_HINTS[CHOOSE i \in hit : \A j \in hit : i <= j][1]
        ELSE IF cleaned # <<>> /\ words # <<>>
        THEN Join(SubSeq(words, 1, Min(3, Len(words))))
        ELSE Other

\* parser._parse_period: the label of the period (the dates are those of the
\* label, counted from today); "none" when it returns None.  The messages of
\* the model carry no date of the form 20YY-MM(-DD).
_parse_period(text) ==
    LET Today ==
            {<<"~s", "~e", "~g", "~o", "~d", "~n", "~A">>}
        Yesterday ==
            {<<"~v", "~C", "~e", "~r", "~a">>}
        WeekWords ==
            {<<"~z", "~a", " ", "~n", "~e", "~d", "~e", "~l", "~U">>,
             <<"~p", "~o", "~s", "~l", "~e", "~d", "~n", "~U", "~U", " ", "~n", "~e", "~d", "~e", "~l", "~U">>,
             <<"~p", "~o", "~s", "~l", "~e", "~d", "~n", "~i", "~e", " ", "7">>,
             <<"~z", "~a", " ", "7">>}
        MonthWords ==
            {<<"~z", "~a", " ", "~m", "~e", "~s", "~A", "~c">>,
             <<"~p", "~o", "~s", "~l", "~e", "~d", "~n", "~i", "~y", " ", "~m", "~e", "~s", "~A", "~c">>,
             <<"~p", "~o", "~s", "~l", "~e", "~d", "~n", "~i", "~e", " ", "3", "0">>,
             <<"~z", "~a", " ", "3", "0">>}
        YearWords ==
            {<<"~z", "~a", " ", "~g", "~o", "~d">>,
             <<"~z", "~a", " ", "~x", "~t", "~o", "~t", " ", "~g", "~o", "~d">>}
        t == Lower(text)
    IN  IF ContainsAny(Today, t) THEN "today"
        ELSE IF ContainsAny(Yesterday, t) THEN "yesterday"
        ELSE IF ContainsAny(WeekWords, t) THEN "week"
        ELSE IF ContainsAny(MonthWords, t) THEN "month"
        ELSE IF ContainsAny(YearWords, t) THEN "year"
        ELSE "none"

\* parser.parse_intent
parse_intent(text0) ==
    LET text == Strip(text0)
        t == Lower(text)
        amount == _extract_amount(text)
        cleaned == Strip(SubNumbers(text, <<>>, 1))
    IN  IF ContainsAny(DELETE_ALL_WORDS, t)
        THEN [name |-> "delete_all_request", payload |-> <<>>,
              needs_clarification |-> TRUE,
              clarification_question |-> "confirm_delete_all"]
        ELSE IF ContainsAny(DELETE_CONFIRM_WORDS, t)
        THEN [name |-> "delete_all_confirmed", payload |-> <<>>,
              needs_clarification |-> FALSE, clarification_question |-> ""]
        ELSE IF ContainsAny(SHOW_WORDS, t)
        THEN [name |-> "show_summary",
              payload |-> [category |-> _guess_category(text),
                           period_label |-> IF _parse_period(text) = "none" THEN "week"
                                            ELSE _parse_period(text)],
              needs_clarification |-> FALSE, clarification_question |-> ""]
        ELSE IF amount # None
        THEN IF cleaned = <<>>
             THEN [name |-> "clarify_transaction", payload |-> [amount |-> amount[1]],
                   needs_clarification |-> TRUE,
                   clarification_question |-> "expense_or_income"]
             ELSE [name |-> "add_transaction",
                   payload |-> [type |-> _guess_type(text), amount |-> amount[1],
                                currency |-> USD, category |-> _guess_category(text),
                                note |-> text],
                   needs_clarification |-> FALSE, clarification_question |-> ""]
        ELSE [name |-> "unknown", payload |-> <<>>,
              needs_clarification |-> FALSE, clarification_question |-> ""]

\* utils.clean_text
clean_text(s) == CollapseSpaces(Strip(s))

\* The first place at or after j that holds no space
RECURSIVE SkipSpaces(_, _)
SkipSpaces(s, j) == IF j <= Len(s) /\ IsSpace(s[j]) THEN SkipSpaces(s, j + 1) ELSE j

\* The places where (\d{1,3})\s*(дн|дня|дней|day|days) matches: a digit with
\* at most three digits up to the end of its run, then spaces, then a unit
DaysMatches(t) ==
    LET DaysUnits ==
            {<<"~d", "~n">>, <<"~d", "~n", "~A">>, <<"~d", "~n", "~e", "~y">>,
             <<"d", "a", "y">>, <<"d", "a", "y", "s">>}
    IN
    {i \in 1..Len(t) :
        /\ IsDigit(t[i])
        /\ DigitsFrom(t, i) <= 3
        /\ LET j == SkipSpaces(t, i + DigitsFrom(t, i))
           IN  \E u \in DaysUnits : j + Len(u) - 1 <= Len(t)
                                    /\ SubSeq(t, j, j + Len(u) - 1) = u}

\* utils.parse_days
parse_days(text) ==
    LET \* utils.parse_days: the words for a week, a month and days
        DaysWeek ==
            {<<"~n", "~e", "~d", "~e", "~l">>, <<"w", "e", "e", "k">>}
        DaysMonth ==
            {<<"~m", "~e", "~s", "~A", "~c">>, <<"m", "o", "n", "t", "h">>}
        t == Lower(text)
        m == DaysMatches(t)
    IN  IF ContainsAny(DaysWeek, t) THEN Some(7)
        ELSE IF ContainsAny(DaysMonth, t) THEN Some(30)
        ELSE IF m # {}
        THEN LET i == CHOOSE k \in m : \A j \in m : k <= j
             IN  Some(Max(1, Min(365, IntOf(SubSeq(t, i, i + DigitsFrom(t, i) - 1)))))
        ELSE None

\* The places where (?<!\d)(\d{1,9}(?:\.\d{1,2})?)(?!\d) matches: the start
\* of a run of at most nine digits
AmountMatches(t) ==
    {i \in 1..Len(t) :
        /\ IsDigit(t[i])
        /\ (i = 1 \/ ~IsDigit(t[i - 1]))
        /\ DigitsFrom(t, i) <= 9}

\* utils.parse_amount.  The fraction is part of the match when it has one
\* or two digits; with more the match ends before the dot.
parse_amount(text) ==
    LET \* str.replace(",", ".")
        CommasToDots(s) == [i \in 1..Len(s) |-> IF s[i] = "," THEN "." ELSE s[i]]
        t == CommasToDots(text)
        m == AmountMatches(t)
    IN  IF m = {} THEN None
        ELSE LET i == CHOOSE k \in m : \A j \in m : k <= j
                 L == DigitsFrom(t, i)
                 all == IF i + L <= Len(t) /\ t[i + L] = "."
                        THEN DigitsFrom(t, i + L + 1) ELSE 0
                 F == IF all \in {1, 2} THEN all ELSE 0
             IN  Some(Hundredths(t, i, L, F))


is_income_phrase(t) ==
    LET \* utils.py, the keys of is_income_phrase
        income_keys ==
            {<<"~d", "~o", "~h", "~o", "~d">>, <<"i", "n", "c", "o", "m", "e">>,
             <<"~p", "~o", "~l", "~u", "~C", "~i", "~l">>,
             <<"~z", "~a", "~r", "~a", "~b", "~o", "~t", "~a", "~l">>,
             <<"p", "a", "i", "d">>, <<"g", "o", "t", " ", "p", "a", "i", "d">>}
        tl == Lower(t)
    IN  ContainsAny(income_keys, tl)

is_expense_phrase(t) ==
    LET \* utils.py, the keys of is_expense_phrase
        expense_keys ==
            {<<"~r", "~a", "~s", "~h", "~o", "~d">>,
             <<"~p", "~o", "~t", "~r", "~a", "~t">>, <<"s", "p", "e", "n", "t">>,
             <<"e", "x", "p", "e", "n", "s", "e">>,
             <<"~k", "~u", "~p", "~i", "~l">>, <<"b", "u", "y">>,
             <<"c", "o", "f", "f", "e", "e">>, <<"~k", "~o", "~f", "~e">>,
             <<"~b", "~e", "~n", "~z", "~i", "~n">>, <<"g", "a", "s">>,
             <<"d", "i", "e", "s", "e", "l">>}
        tl == Lower(t)
    IN  ContainsAny(expense_keys, tl)

is_debt_phrase(t) ==
    LET \* utils.py, the keys of is_debt_phrase
        debt_keys ==
            {<<"~d", "~o", "~l", "~g">>, <<"d", "e", "b", "t">>,
             <<"~n", "~a", " ", "~d", "~o", "~l", "~g">>,
             <<"~v", " ", "~d", "~o", "~l", "~g">>, <<"l", "o", "a", "n">>}
        tl == Lower(t)
    IN  ContainsAny(debt_keys, tl)

is_pay_debt_phrase(t) ==
    LET \* utils.py, the keys of is_pay_debt_phrase
        pay_debt_keys ==
            {<<"~o", "~p", "~l", "~a", "~t">>, <<"~p", "~o", "~g", "~a", "~s">>,
             <<"~v", "~e", "~r", "~n", "~u", "~l">>,
             <<"p", "a", "i", "d", " ", "d", "e", "b", "t">>,
             <<"p", "a", "y", " ", "d", "e", "b", "t">>,
             <<"~z", "~a", "~k", "~r", "~Y", "~l", " ", "~d", "~o", "~l", "~g">>}
        tl == Lower(t)
    IN  ContainsAny(pay_debt_keys, tl)

\* router_fallback.Route with its defaults
Route(intent) ==
    [intent |-> intent, kind |-> NULL, amount |-> None, days |-> None, note |-> None]

\* FallbackRouter.route
route(text) ==
    LET \* router_fallback.py 22
        HelpWords ==
            {<<"~C", "~t", "~o", " ", "~t", "~Y", " ", "~u", "~m", "~e", "~e", "~w", "~Q">>,
             <<"~p", "~o", "~m", "~o", "~W", "~Q">>, <<"h", "e", "l", "p">>,
             <<"~k", "~o", "~m", "~a", "~n", "~d", "~Y">>,
             <<"~C", "~t", "~o", " ", "~m", "~o", "~j", "~e", "~w", "~Q">>,
             <<"~k", "~a", "~k", " ", "~d", "~e", "~l", "~a">>,
             <<"~p", "~r", "~i", "~v", "~e", "~t">>, <<"h", "e", "l", "l", "o">>,
             <<"h", "i">>, <<"~k", "~u">>, <<"~k", "~u", "~k", "~u">>,
             <<"~a", "~u">>}
        \* router_fallback.py 26, the first list
        DeleteVerbs ==
            {<<"~u", "~d", "~a", "~l", "~i">>,
             <<"~u", "~d", "~a", "~l", "~i", "~t", "~Q">>,
             <<"~s", "~t", "~e", "~r">>, <<"~s", "~o", "~t", "~r", "~i">>,
             <<"d", "e", "l", "e", "t", "e">>, <<"r", "e", "m", "o", "v", "e">>,
             <<"~o", "~C", "~i", "~s", "~t", "~i">>, <<"w", "i", "p", "e">>,
             <<"e", "r", "a", "s", "e">>}
        \* router_fallback.py 26, the second list
        DeleteObjects ==
            {<<"~d", "~a", "~n", "~n", "~Y", "~e">>, <<"~v", "~s", "~E">>,
             <<"~a", "~k", "~k", "~a", "~u", "~n", "~t">>,
             <<"a", "c", "c", "o", "u", "n", "t">>, <<"d", "a", "t", "a">>,
             <<"h", "i", "s", "t", "o", "r", "y">>}
        \* router_fallback.py 30
        ShowPhrases ==
            {<<"~p", "~o", "~k", "~a", "~j", "~i">>,
             <<"~p", "~o", "~k", "~a", "~z", "~a", "~t", "~Q">>,
             <<"s", "h", "o", "w">>, <<"l", "i", "s", "t">>,
             <<"~v", "~Y", "~v", "~e", "~d", "~i">>,
             <<"~p", "~o", "~s", "~m", "~o", "~t", "~r", "~e", "~t", "~Q">>,
             <<"~k", "~a", "~k", "~i", "~e", " ", "~r", "~a", "~s", "~h", "~o", "~d", "~Y">>,
             <<"~k", "~a", "~k", "~i", "~e", " ", "~d", "~o", "~h", "~o", "~d", "~Y">>}
        \* router_fallback.py 34
        SummaryWords ==
            {<<"~s", "~v", "~o", "~d", "~k", "~a">>,
             <<"~i", "~t", "~o", "~g", "~o">>, <<"~i", "~t", "~o", "~g", "~i">>,
             <<"s", "u", "m", "m", "a", "r", "y">>, <<"t", "o", "t", "a", "l">>,
             <<"~o", "~t", "~C", "~e", "~t">>, <<"~o", "~t", "~C", "~E", "~t">>}
        \* router_fallback.py 39
        AdviceWords ==
            {<<"~s", "~o", "~v", "~e", "~t">>,
             <<"~k", "~a", "~k", " ", "~x", "~k", "~o", "~n", "~o", "~m", "~i", "~t", "~Q">>,
             <<"~k", "~a", "~k", " ", "~s", "~x", "~k", "~o", "~n", "~o", "~m", "~i", "~t", "~Q">>,
             <<"~p", "~o", "~d", "~s", "~k", "~a", "~j", "~i">>,
             <<"a", "d", "v", "i", "c", "e">>, <<"t", "i", "p", "s">>,
             <<"~b", "~U", "~d", "~j", "~e", "~t">>}
        \* `parse_days(t) or 7`
        DaysOr7(t) == IF parse_days(t) = None THEN Some(7) ELSE parse_days(t)
        t == clean_text(text)
        tl == Lower(t)
        amt == parse_amount(t)
        Log(kind) == [Route("LOG") EXCEPT !.kind = kind, !.amount = amt, !.note = Some(t)]
    IN  IF ContainsAny(HelpWords, tl) THEN Route("HELP")
        ELSE IF ContainsAny(DeleteVerbs, tl) /\ ContainsAny(DeleteObjects, tl)
        THEN Route("DELETE_DATA")
        ELSE IF ContainsAny(ShowPhrases, tl)
        THEN [Route("SHOW") EXCEPT !.days = DaysOr7(t)]
        ELSE IF ContainsAny(SummaryWords, tl)
        THEN [Route("SUMMARY") EXCEPT !.days = DaysOr7(t)]
        ELSE IF ContainsAny(AdviceWords, tl) THEN Route("ADVICE")
        ELSE IF amt # None
        THEN IF is_pay_debt_phrase(t) THEN Log("pay_debt")
             ELSE IF is_debt_phrase(t) THEN Log("debt")
             ELSE IF is_income_phrase(t) THEN Log("income")
             ELSE IF is_expense_phrase(t) THEN Log("expense")
             ELSE Log("expense")
        ELSE Route("UNKNOWN")

\* The messages of the model: up to MaxWords pieces with a space between
MaxWords == 2

Messages ==
    LET Pieces ==
            {Fr.DeleteRu, Fr.ShowRu, Fr.BoughtRu, Fr.GotRu, Fr.DeleteEn, Fr.Hello, Fr.Show,
             Fr.Summary, Fr.Number, Fr.Coffee, Fr.Xyz, Fr.ConfirmRu,
             Fr.ConfirmRuPlain, Fr.ConfirmRuUpper}
    IN  UNION {[1..n -> Pieces] : n \in 0..MaxWords}

\* One call of parse_intent(text)
ParseIntent ==
    \E words \in Messages :
        /\ call = NoOp
        /\ call' = [op |-> "parse_intent", words |-> words, text |-> Join(words),
                    result |-> parse_intent(Join(words))]
        /\ Untouched

\* One call of FallbackRouter.route(text)
FallbackRoute ==
    \E words \in Messages :
        /\ call = NoOp
        /\ call' = [op |-> "route", words |-> words, text |-> Join(words),
                    result |-> route(Join(words))]
        /\ Untouched

NextParser == ParseIntent \/ FallbackRoute

SpecParser == Init /\ [][NextParser]_vars

(***************************************************************************)
(* main.py: the handlers of the Telegram application.  A handler is a      *)
(* coroutine: it runs without interruption from one await to the next, and *)
(* the application built at main.py:413 with its defaults awaits the       *)
(* handler of one update to its end before it takes the next update.       *)
(***************************************************************************)

\* the memory summary is rebuilt at the fifth message
SummaryEvery == 5

Steps == [income |-> "obligations", obligations |-> "balance", balance |-> "goal"]

NewUser ==
    [exists |-> TRUE, done |-> FALSE, step |-> "income", since_summary |-> 0,
     summaries |-> 0]

\* what one uninterrupted run of a handler leaves: the document, the number
\* of replies it has sent or is sending, what it still does after the await
\* it stops at, and whether it called call_llm_advice
Ran(d, replies, todo, advised) ==
    [mdoc |-> d, replies |-> replies, todo |-> todo, advised |-> advised]

\* maybe_update_memory_summary: the document it leaves and whether it called
\* call_llm_memory_summary; llm is what that call gives
maybe_update_memory_summary(d, llm) ==
    IF ~d.exists \/ ~d.done THEN [mdoc |-> d, asked |-> FALSE]
    ELSE LET n == d.since_summary + 1 IN
         IF n < SummaryEvery
         THEN [mdoc |-> [d EXCEPT !.since_summary = n], asked |-> FALSE]
         ELSE IF llm = "text"
         THEN [mdoc |-> [d EXCEPT !.since_summary = 0, !.summaries = @ + 1],
               asked |-> TRUE]
         ELSE [mdoc |-> [d EXCEPT !.since_summary = n], asked |-> TRUE]

\* start, up to its first await
start_resets(d) ==
    IF ~d.exists THEN Ran(NewUser, 1, <<"ask">>, FALSE)
    ELSE Ran([d EXCEPT !.step = "income"], 1, <<>>, FALSE)

start(d) ==
    IF ~d.exists THEN Ran(NewUser, 1, <<"ask">>, FALSE)
    ELSE Ran(d, 1, <<>>, FALSE)

\* process_user_text, up to its first await; advice is what call_llm_advice
\* does
process_user_text(d, empty, advice) ==
    IF empty THEN Ran(d, 1, <<>>, FALSE)
    ELSE IF ~d.exists THEN start(d)
    ELSE IF ~d.done
    THEN IF d.step \in DOMAIN Steps
         THEN Ran([d EXCEPT !.step = Steps[d.step]], 1, <<>>, FALSE)
         ELSE IF d.step = "goal"
         THEN Ran([d EXCEPT !.done = TRUE, !.step = "done"], 1, <<"memory_init">>,
                  FALSE)
         ELSE Ran([d EXCEPT !.step = "income"], 1, <<>>, FALSE)
    ELSE IF advice = "raise" THEN Ran(d, 1, <<>>, TRUE)
    ELSE Ran(d, 1, <<"memory">>, TRUE)

\* the application takes the next update when the handler of the one before
\* has returned
MayDispatch_concurrent(ts, u) ==
    TRUE

MayDispatch(ts, u) ==
    \A v \in DOMAIN ts : ts[v].pc # "awaiting"

\* the documents a user can have when the updates arrive
UserDocs ==
    {NoUser, NewUser, [NewUser EXCEPT !.step = "goal"]}
        \cup {[NewUser EXCEPT !.done = TRUE, !.step = "done", !.since_summary = n]
                : n \in {0, SummaryEvery - 2, SummaryEvery - 1}}

\* the application hands update u to its handler, which runs to its first
\* await
process_update(u, h, empty, advice) ==
    /\ turns[u].pc = "queued"
    /\ \A v \in 1..(u - 1) : turns[v].pc # "queued"
    /\ MayDispatch(turns, u)
    /\ LET r == CASE h = "start" -> start(mdoc)
                  [] h = "handle_text" -> process_user_text(mdoc, empty, advice)
                  [] OTHER -> Ran(mdoc, 0, <<"transcribed">>, FALSE)
       IN /\ mdoc' = r.mdoc
          /\ turns' = [turns EXCEPT ![u] =
                          [pc |-> "awaiting", handler |-> h, todo |-> r.todo,
                           replies |-> r.replies,
                           text |-> IF h # "handle_text" THEN "none"
                                    ELSE IF empty THEN "empty" ELSE "text",
                           advised |-> r.advised, summary_calls |-> 0]]
    /\ UNCHANGED <<now, doc, tx, reminders, last, routeIn, routed, call>>

\* the await a handler stopped at completes and the handler runs to its next
\* await or to its end; fail: the store raises in maybe_update_memory_summary,
\* sent: the reply with the answer went out, stt: what the transcription gives
Resume(u, llm, fail, sent, stt, empty, advice) ==
    /\ turns[u].pc = "awaiting"
    /\ LET t == turns[u]
           step == IF t.todo = <<>> THEN "return" ELSE Head(t.todo)
           r == process_user_text(mdoc, empty, advice)
           m == maybe_update_memory_summary(mdoc, llm)
       IN CASE step = "return" ->
                 /\ turns' = [turns EXCEPT ![u].pc = "done"]
                 /\ mdoc' = mdoc
            [] step = "ask" ->
                 /\ turns' = [turns EXCEPT ![u].todo = <<>>, ![u].replies = @ + 1]
                 /\ mdoc' = mdoc
            [] step = "memory_init" ->
                 IF fail
                 THEN /\ turns' = [turns EXCEPT ![u].pc = "done", ![u].todo = <<>>]
                      /\ mdoc' = mdoc
                 ELSE /\ turns' = [turns EXCEPT ![u].pc = "done", ![u].todo = <<>>,
                                    ![u].summary_calls = IF m.asked THEN @ + 1 ELSE @]
                      /\ mdoc' = m.mdoc
            [] step = "memory" ->
                 IF ~sent
                 THEN \* the answer did not go out: the error reply instead
                      /\ turns' = [turns EXCEPT ![u].todo = <<>>]
                      /\ mdoc' = mdoc
                 ELSE IF fail
                 THEN /\ turns' = [turns EXCEPT ![u].todo = <<>>,
                                                ![u].replies = @ + 1]
                      /\ mdoc' = mdoc
                 ELSE /\ turns' = [turns EXCEPT ![u].pc = "done", ![u].todo = <<>>,
                                    ![u].summary_calls = IF m.asked THEN @ + 1 ELSE @]
                      /\ mdoc' = m.mdoc
            [] OTHER ->
                 IF stt = "text"
                 THEN /\ turns' = [turns EXCEPT ![u].todo = r.todo,
                                                ![u].replies = r.replies,
                                                ![u].text = IF empty THEN "empty"
                                                            ELSE "text",
                                                ![u].advised = r.advised]
                      /\ mdoc' = r.mdoc
                 ELSE /\ turns' = [turns EXCEPT ![u].todo = <<>>, ![u].replies = 1]
                      /\ mdoc' = mdoc
    /\ UNCHANGED <<now, doc, tx, reminders, last, routeIn, routed, call>>

InitTurns ==
    /\ now = 0
    /\ doc = NoDoc
    /\ tx = <<>>
    /\ reminders = <<>>
    /\ last = Idle
    /\ routeIn = NoCall
    /\ routed = NotRouted
    /\ call = NoOp
    /\ mdoc \in UserDocs
    /\ turns = NoTurns

NextTurns ==
    LET Handlers == {"start", "handle_text", "handle_voice"}
        LlmOutcomes == {"text", "empty", "raise"}
        AdviceOutcomes == {"ok", "raise"}
    IN
    \/ \E u \in 1..MaxUpdates, h \in Handlers, empty \in BOOLEAN,
          advice \in AdviceOutcomes :
            process_update(u, h, empty, advice)
    \/ \E u \in 1..MaxUpdates, llm \in LlmOutcomes, fail \in BOOLEAN,
          sent \in BOOLEAN, stt \in LlmOutcomes, empty \in BOOLEAN,
          advice \in AdviceOutcomes :
            Resume(u, llm, fail, sent, stt, empty, advice)

SpecTurns == InitTurns /\ [][NextTurns]_vars

----------------------------------------------------------------------------
(* Properties *)

\* The latest step was a turn of handle_message, not yet delivered
InTurn == last.op = "handle_message"

CalledIn(calls, name) == \E i \in 1..Len(calls) : calls[i] = name

\* The write `name` was made in the latest turn and did not raise
Done(l, name) == CalledIn(l.calls, name) /\ l.failed # name

Settings(d) == <<d.language, d.language_mode, d.language_fixed, d.base_currency>>

\* C1: while the pending slot is delete_account_wait_phrase, a message that
\* is not exactly the confirmation phrase never reaches
\* delete_account_everything.
C1_OnlyExactPhraseDeletes ==
    [][(last'.op = "handle_message" /\ doc.pending = WAIT_PHRASE
            /\ last'.text # PHRASE)
        => ~CalledIn(last'.calls, "delete_account_everything")]_vars

\* C2: deletion is two-phase: delete_account_everything is only called in a
\* turn that started with the pending delete confirmation set and received
\* the confirmation phrase, whatever the resolver returns.
C2_DeletionNeedsPending ==
    [][(last'.op = "handle_message"
            /\ CalledIn(last'.calls, "delete_account_everything"))
        => (doc.pending = WAIT_PHRASE /\ last'.text = PHRASE)]_vars

\* C3: a turn less than 24 hours after the previous deletion makes neither
\* the deletion nor the cooldown write, and leaves the timestamp alone.
C3_NoDeletionWithinCooldown ==
    [][(last'.op = "handle_message" /\ doc.last_delete_at # None
            /\ now - doc.last_delete_at[1] < CooldownTicks)
        => /\ ~CalledIn(last'.calls, "delete_account_everything")
           /\ ~CalledIn(last'.calls, "set_delete_cooldown")
           /\ doc'.last_delete_at = doc.last_delete_at]_vars

\* C4: after a turn whose deletion went through, the ledger and the
\* reminders are empty, the settings are the defaults, the pending slot is
\* empty and the deletion timestamp is the time of the deletion.
C4_DeletionResetsEverything ==
    (InTurn /\ Done(last, "delete_account_everything"))
        => /\ tx = <<>>
           /\ reminders = <<>>
           /\ doc.exists
           /\ doc.language = "auto"
           /\ doc.base_currency = None
           /\ doc.language_mode = NULL
           /\ doc.language_fixed = NULL
           /\ doc.pending = NULL
           /\ doc.last_delete_at = Some(now)

\* C4 witness: a confirmed deletion of an account that had a ledger entry, a
\* reminder, a fixed language and the pending confirmation
C4_Witness ==
    /\ InTurn
    /\ Done(last, "delete_account_everything")
    /\ last.reply.action = "delete_account_done"
    /\ last.text = PHRASE
    /\ last.before = [tx |-> 1, reminders |-> 1, pending |-> WAIT_PHRASE]
    /\ tx = <<>>
    /\ doc.last_delete_at = Some(now)

\* A valid currency code: three capital letters
ValidCode(c) ==
    Len(c) = 3 /\ \A i \in 1..Len(c) : \E j \in 1..Len(UpperLetters) : UpperLetters[j] = c[i]

\* C5: every transaction in the ledger has a type, a strictly positive
\* amount and a valid currency code.
C5_LedgerEntriesValid ==
    \A i \in 1..Len(tx) :
        /\ tx[i].type \in {"expense", "income"}
        /\ tx[i].amount > 0
        /\ ValidCode(tx[i].currency)

\* C6: with the delete confirmation pending, a message that is not the
\* phrase leaves the slot, the ledger and the settings alone, and the slot
\* is emptied only by a deletion that went through.
C6_PendingDeleteKept ==
    [][(last'.op = "handle_message" /\ doc.pending = WAIT_PHRASE)
        => /\ last'.text # PHRASE
                => (doc'.pending = WAIT_PHRASE /\ tx' = tx
                        /\ Settings(doc') = Settings(doc))
           /\ doc'.pending # WAIT_PHRASE
                => Done(last', "delete_account_everything")]_vars

\* C7: when the resolver raises, the turn still replies with a non-empty
\* text and the stored state is what it was before the turn.
C7_ResolverFailureAnswered ==
    [][(last'.op = "handle_message" /\ last'.raises)
        => /\ last'.reply.sent
           /\ last'.reply.text # <<>>
           /\ doc' = doc /\ tx' = tx /\ reminders' = reminders]_vars

\* C8: a turn in which a storage write raised still answers the user, and
\* not with a success reply.
C8_StorageFailureAnswered ==
    (InTurn /\ last.failed # "none")
        => /\ last.reply.sent
           /\ last.reply.action \notin {"delete_account_done", "logged"}

\* The outputs json.loads does not parse
Unparseable == {TxtBlank, TxtProse, TxtTruncated}

\* C9: on an absent, empty or unparseable output route_message returns the
\* fallback object: action unknown, a non-empty reply, the other five keys
\* present and null; it does not raise.
C9_ParseFailureGivesFallback ==
    (routeIn.called /\ ~routeIn.raises
        /\ (routeIn.output_text = None \/ routeIn.output_text[1] \in Unparseable \cup {""}))
        => /\ routed.returned
           /\ ~routed.raised
           /\ routed.value.type = "object"
           /\ routed.value.keys = REQUIRED
           /\ routed.value.action = "unknown"
           /\ routed.value.reply
           /\ routed.value.nulls =
                {"language_set", "base_currency_set", "period", "transaction", "reminder"}

\* C9 witness: a truncated JSON text was answered with the fallback object
C9_Witness ==
    /\ routeIn.called
    /\ routeIn.output_text = Some(TxtTruncated)
    /\ routed.returned
    /\ routed.value.action = "unknown"

\* C10: whatever the service's output, route_message returns an object with
\* all seven keys and an action of the enumeration.
C10_AlwaysSchemaObject ==
    (routeIn.called /\ ~routeIn.raises)
        => /\ routed.returned
           /\ routed.value.type = "object"
           /\ routed.value.keys = REQUIRED
           /\ routed.value.action \in ActionEnum

\* C11: render_reply never raises to the caller and never returns an empty
\* string; when the service raises, answers nothing or answers something
\* that is not the expected JSON object, it returns "OK.".
C11_RenderFailsSafe ==
    call.op = "render_reply"
        => /\ call.result.sent
           /\ call.result.text # <<>>
           /\ call.rend # "text" => call.result.text = OkDot

C14_EmptyTextWritesNothing ==
    [][(last'.op = "handle_message" /\ Strip(last'.text) = <<>>)
        => /\ last'.calls = <<>>
           /\ doc' = doc /\ tx' = tx /\ reminders' = reminders]_vars

\* C17: for a user with no base currency, a message resolved as a
\* transaction with an amount is persisted in that same turn (when nothing
\* fails) and the reply is the one that reports what was logged.
C17_LoggedWithDefaultCurrency ==
    [][(/\ last'.op = "handle_message"
        /\ ~Truthy(doc.base_currency)
        /\ doc.pending # WAIT_PHRASE
        /\ last'.intent \in {"log_expense", "log_income"}
        /\ last'.amount = Some(5)
        /\ last'.failed = "none"
        /\ last'.reply.sent)
        => /\ Len(tx') = Len(tx) + 1
           /\ last'.reply.action = "logged"]_vars

\* A token of the lookup table maps to its code; an unmapped token passes
\* only if it is three capital letters
Accepted(c) == c \in {USD, EUR, GBP, RUB, KZT} \/ ValidCode(c)

\* C18: only validated currency values are stored: the base currency of the
\* user document and the currency of every ledger entry is a code of the
\* lookup table or three capital letters.
C18_StoredCurrenciesValidated ==
    /\ Truthy(doc.base_currency) => Accepted(doc.base_currency[1])
    /\ \A i \in 1..Len(tx) : Accepted(tx[i].currency)

\* The sum of the amounts of the items of one type and one currency
RECURSIVE SumOf(_, _, _)
SumOf(items, ty, cur) ==
    IF items = <<>> THEN 0
    ELSE (IF Head(items).type = ty /\ Head(items).currency = cur
          THEN Head(items).amount ELSE 0) + SumOf(Tail(items), ty, cur)

\* C19: a summary's income and expense are the sums over the transactions in
\* the base currency only, net is income minus expense, and every other
\* currency is summed separately in the excluded bucket.
C19_SummaryKeepsCurrenciesApart ==
    call.op \in {"show_summary", "compute_summary"}
        => LET base == call.base_currency
               others == {call.items[i].currency : i \in 1..Len(call.items)} \ {base}
           IN  /\ call.result.income = SumOf(call.items, "income", base)
               /\ call.result.expense = SumOf(call.items, "expense", base)
               /\ call.result.net = call.result.income - call.result.expense
               /\ IF "excluded" \in DOMAIN call.result
                  THEN call.result.excluded =
                        [c \in others |-> SumOf(call.items, "income", c)
                                            + SumOf(call.items, "expense", c)]
                  ELSE others = {}

\* C20 as stated: the second of two successive calls of
\* delete_user_everything leaves the ledger, the reminders and the user
\* record exactly as the first call left them.
C20_SecondDeleteIsNoOp ==
    call.op = "delete_twice" => call.second = call.first

\* C20 amended: the second call leaves the ledger and the reminders empty and
\* the user record as the first call left it, except for the deletion
\* timestamp, which is the time of the second call.
C20_SecondDeleteOnlyRestamps ==
    call.op = "delete_twice"
        => /\ call.first.tx = <<>> /\ call.first.reminders = <<>>
           /\ call.second.tx = call.first.tx
           /\ call.second.reminders = call.first.reminders
           /\ call.second.doc = [call.first.doc EXCEPT !.last_delete_at = Some(call.t2)]

\* C20 witness: an account with more than one batch of ledger entries and of
\* reminders was deleted twice, the second time an instant later
C20_Witness ==
    /\ call.op = "delete_twice"
    /\ call.before.tx > batch_size /\ call.before.reminders > batch_size
    /\ call.before.doc.pending = WAIT_PHRASE
    /\ call.t2 > call.t1
    /\ call.second.tx = <<>>
    /\ call.second.doc.last_delete_at = Some(call.t2)

\* The message of the latest call holds the piece p
HasPiece(p) == \E i \in 1..Len(call.words) : call.words[i] = p

\* The delete phrases and the show / summary phrases among the pieces, for
\* each resolver's own vocabulary
HasDeletePhrase ==
    \/ HasPiece(Fr.DeleteRu) \/ HasPiece(Fr.ConfirmRu) \/ HasPiece(Fr.ConfirmRuUpper)
    \/ (call.op = "route" /\ HasPiece(Fr.DeleteEn))
    \/ (call.op = "parse_intent" /\ HasPiece(Fr.ConfirmRuPlain))

HasShowPhrase ==
    HasPiece(Fr.ShowRu) \/ (call.op = "route" /\ (HasPiece(Fr.Show) \/ HasPiece(Fr.Summary)))

IsDeleteIntent ==
    IF call.op = "route" THEN call.result.intent = "DELETE_DATA"
    ELSE call.result.name \in {"delete_all_request", "delete_all_confirmed"}

IsShowIntent ==
    IF call.op = "route" THEN call.result.intent \in {"SHOW", "SUMMARY"}
    ELSE call.result.name = "show_summary"

\* C15: a message with a delete phrase is resolved as the delete intent
\* whatever else it holds, and a message with a show / summary phrase and a
\* number (and no delete phrase) as show / summary.
C15_DeleteThenShowThenAmount ==
    call.op \in {"parse_intent", "route"}
        => /\ HasDeletePhrase => IsDeleteIntent
           /\ (~HasDeletePhrase /\ HasShowPhrase /\ HasPiece(Fr.Number)) => IsShowIntent

\* C16: a message with a number and otherwise only unrecognised words is
\* answered with the expense-or-income clarification that carries the
\* amount, never with a transaction of a guessed type.
C16_BareAmountAsksType ==
    (/\ call.op \in {"parse_intent", "route"}
     /\ HasPiece(Fr.Number)
     /\ \A i \in 1..Len(call.words) : call.words[i] \in {Fr.Number, Fr.Xyz})
        => IF call.op = "route" THEN call.result.intent # "LOG"
           ELSE /\ call.result.name = "clarify_transaction"
                /\ call.result.needs_clarification
                /\ call.result.payload.amount = 10000


C21_PendingTurnSkipsResolver ==
    [][(/\ last'.op = "handle_message"
        /\ doc.pending = WAIT_PHRASE
        /\ last'.raises
        /\ Contains(PHRASE, last'.text))
        => doc'.pending = NULL]_vars


\* C22: a message that contains the confirmation phrase parse_intent asks
\* for, in any letter case, is classified as delete_all_confirmed, not as
\* delete_all_request.
C22_ConfirmationIsConfirmed ==
    (call.op = "parse_intent" /\ ContainsAny(DELETE_CONFIRM_WORDS, Lower(call.text)))
        => call.result.name = "delete_all_confirmed"


\* C23: the turn that answers the last onboarding step calls
\* call_llm_memory_summary exactly once before it ends.
C23_InitialSummaryAtGoal ==
    [][\A u \in 1..MaxUpdates :
            (turns[u].todo = <<"memory_init">> /\ turns'[u].pc = "done")
                => turns'[u].summary_calls = 1]_vars


\* C24: call_llm_memory_summary is called at most once in any five
\* consecutive calls of maybe_update_memory_summary (every turn makes at most
\* one such call, so two turns that called it are at least five updates
\* apart), never before onboarding is done, and counters.since_summary stays
\* within 0..5.
C24_SummaryOncePerFive ==
    /\ mdoc.since_summary \in 0..SummaryEvery
    /\ \A u \in 1..MaxUpdates : turns[u].summary_calls > 0 => mdoc.done
    /\ \A u, v \in 1..MaxUpdates :
            (u < v /\ turns[u].summary_calls > 0 /\ turns[v].summary_calls > 0)
                => v - u >= SummaryEvery


\* C25: the ledger is non-empty only if the base currency is set, and a turn
\* of a user without a base currency whose intent is not set_base_currency
\* adds no transaction, changes no setting (ensure_user may create the
\* document with its defaults), sets no pending action, and the reply it
\* returns is the request for the currency.
C25_NoLedgerWithoutBaseCurrency ==
    [][/\ tx' # <<>> => (doc'.base_currency # None /\ doc'.base_currency[1] # <<>>)
       /\ (/\ last'.op = "handle_message"
           /\ doc.base_currency = None
           /\ last'.intent # "set_base_currency")
           => /\ tx' = tx
              /\ Settings(doc') \in {Settings(doc), Settings(ensure_user(doc, now))}
              /\ doc'.pending = doc.pending
              /\ last'.reply.sent => last'.reply.action = "ask_base_currency"]_vars

\* C25 witness: a user without a base currency asked to log an expense and
\* got the request for the currency; nothing is in the ledger.
C25_Witness ==
    /\ InTurn
    /\ last.intent = "log_expense" /\ last.amount = Some(5)
    /\ last.reply.sent /\ last.reply.action = "ask_base_currency"
    /\ doc.exists /\ doc.base_currency = None
    /\ tx = <<>>


\* C26: in a turn where the cooldown check answers that deletion is not
\* allowed, handle_message calls neither set_delete_cooldown nor
\* delete_account_everything, whatever the seconds to wait that come with the
\* answer, zero included.
C26_RefusalWhateverTheWait ==
    [][(last'.op = "handle_message" /\ ~can_delete_account(doc, now)[1])
        => /\ ~CalledIn(last'.calls, "set_delete_cooldown")
           /\ ~CalledIn(last'.calls, "delete_account_everything")]_vars


\* The place of an onboarding step in the order of the steps
Place(step) ==
    CASE step = "income" -> 1 [] step = "obligations" -> 2 [] step = "balance" -> 3
      [] step = "goal" -> 4 [] step = "done" -> 5 [] OTHER -> 0

\* The run of a handler in this step took a non-empty text as the message
TookText(u) == turns[u].text # "text" /\ turns'[u].text = "text"

\* C27: for an existing user the onboarding step moves only forward in the
\* order income, obligations, balance, goal, done, by exactly one place for
\* every non-empty text taken before onboarding is done and not otherwise;
\* /start leaves the step and done as they are; call_llm_advice is called
\* only when done is true; done never goes back to false.
C27_OnboardingOnlyForward ==
    [][\A u \in 1..MaxUpdates :
        (turns'[u] # turns[u] /\ mdoc.exists)
            => /\ mdoc'.exists
               /\ mdoc.done => mdoc'.done
               /\ Place(mdoc'.step) =
                    (IF TookText(u) /\ ~mdoc.done THEN Place(mdoc.step) + 1
                     ELSE Place(mdoc.step))
               /\ turns'[u].handler = "start" => mdoc' = mdoc
               /\ (turns'[u].advised /\ ~turns[u].advised) => mdoc.done]_vars

\* C27 witness: a new user answered the first question by text, sent /start
\* and answered the second question by voice: the step is the third one.
C27_Witness ==
    /\ turns[1].handler = "handle_text" /\ turns[1].text = "text"
    /\ turns[2].handler = "start" /\ turns[2].pc = "done"
    /\ turns[3].handler = "handle_voice" /\ turns[3].text = "text"
    /\ mdoc.step = "balance" /\ ~mdoc.done


\* C28: a message handled in consultation mode (call_llm_advice was called)
\* is answered with exactly one reply, the answer or the error message,
\* whichever call of the turn fails.
C28_OneReplyPerConsultation ==
    \A u \in 1..MaxUpdates :
        (turns[u].pc = "done" /\ turns[u].advised) => turns[u].replies = 1

====
